---- MODULE Spec2Model ----
(***************************************************************************)
(* The frame driver, the double-buffered heightmap and the texture seeding *)
(* of MainScene (src/src/js/components/water.js).                           *)
(*                                                                         *)
(* Spec     : the program from the point where init() calls animate()      *)
(*            (water.js:130) onwards: frames, display-refresh ticks,       *)
(*            resize events and the clock.                                 *)
(* FairSpec : Spec with fair delivery of ticks and fair progress of a      *)
(*            running frame.                                               *)
(* FillSpec : fillTexture cell by cell, in two loads of the page side by   *)
(*            side (fillTexture of scene.js is the same code).             *)
(*                                                                         *)
(* The behaviour of the three.js objects the code calls (Object3D's world  *)
(* matrices, GPUComputationRenderer's init, compute and accessors,         *)
(* SimplexNoise's table) is modelled at the call sites.                    *)
(*                                                                         *)
(* JavaScript runs each task to completion, so a tick or a resize event is *)
(* only taken when no frame is executing (pc = "idle"); the statements of  *)
(* one frame are separate steps so that their order is visible.            *)
(*                                                                         *)
(* Objects are held by reference in JavaScript. A uniform's value is       *)
(* either [ref |-> name], a reference to a live object whose content is    *)
(* looked up when the uniform is read, or [val |-> v], a value of its own. *)
(*                                                                         *)
(* Units. The clock counts quanta of 500 ms. stepAgent adds                *)
(* speed * deltaTime / radius = PI * deltaTime[s] to currentAngle, which   *)
(* is PI/2 per quantum, so currentAngle is kept in quarter turns and the   *)
(* cosine and sine are exact.                                              *)
(***************************************************************************)
EXTENDS Integers, Sequences, FiniteSets, TLC

\* ---------------------------------------------------------------- bounds
\* The clock stops advancing at MaxTime quanta (frames go on with deltaTime 0).
MaxTime == 3
\* The ghost counters (frames, ticks, steps, draws) and the generation number of a
\* buffer's content saturate at MaxCount.
MaxCount == 4
\* The grid is WIDTH x WIDTH cells: 128 in the source, scaled down here.
WIDTH == 2
\* The noise table has 256 entries of 0..255 in the library, PermSize of
\* 0..PermSize-1 here.
PermSize == 2

\* ------------------------------------------------------ program constants
BOUNDS == 512
mouseSize == 20
heightCompensation == 0
\* viscosityConstant is 0.98, kept in hundredths.
viscosityConstantPct == 98
\* new Vector2(10000, 10000): the far-away position mousePos is created with.
mousePosFar == 10000
\* for (let i = 0; i < 15; i++)
Octaves == 15
waterMaxHeight == 10

Inc(c) == IF c < MaxCount THEN c + 1 ELSE c

\* ------------------------------------------------------------- geometry
\* A Matrix4 of an unscaled object: its rotation and its translation.
Identity == [rot |-> "identity", pos |-> <<0, 0, 0>>]

\* Matrix4.compose(position, quaternion, scale) for the two rotations in use.
compose(position, rot) == [rot |-> rot, pos |-> position]

\* plane_mesh.rotation.x = -PI/2, position.y = -BOUNDS/16, then updateMatrix().
PlaneMatrix == compose(<<0, -(BOUNDS \div 16), 0>>, "rotX(-PI/2)")

\* cos and sin of q quarter turns.
CosQ(q) == CASE q % 4 = 0 -> 1 [] q % 4 = 2 -> -1 [] OTHER -> 0
\* The sine taken for the cosine.
MutSinAsCos(q) == CosQ(q)

SinQ(q) == CASE q % 4 = 1 -> 1 [] q % 4 = 3 -> -1 [] OTHER -> 0

\* The angle read as 0 whatever it is: nothing is accumulated.
MutAngleForgotten(v) == 0

\* this.currentAngle || 0 : an undefined field (<<>>) reads as 0.
OrZero(v) == IF v = <<>> THEN 0 ELSE v[1]

radius == BOUNDS \div 4

\* ------------------------------------------------------------- variables
VARIABLES
    pc,                \* where the driver is: "idle", or the next statement of the frame
    startedBy,         \* who called the animate() that is running or ran last
    now,               \* performance.now(), in quanta
    lastTimestamp,     \* module-level lastTimestamp
    deltaTime,         \* module-level deltaTime, in quanta
    currentAngle,      \* this.currentAngle: <<>> while undefined, else <<quarter turns>>
    sphere,            \* #sphere: [position, matrixWorld]
    plane_mesh,        \* #plane_mesh: [matrix, matrixWorld, matrixWorldNeedsUpdate]
    heightmapUniforms, \* heightmapVariable.material.uniforms
    heightmapDefines,  \* heightmapVariable.material.defines
    waterUniforms,     \* the water material's uniforms
    agentUniforms,     \* the agent material's uniforms
    gpuCompute,        \* [initError, renderTargets, currentTextureIndex, writing, reading]
    rafQueue,          \* number of animate callbacks registered for the next tick
    batch,             \* callbacks of the current tick still to be run
    size,              \* #width, #height
    frames,            \* executions of animate() begun
    ticks,             \* display-refresh ticks delivered
    steps,             \* simulation steps completed
    draws,             \* draw calls completed
    frameLog,          \* what the running frame has done so far
    prevFrameLog,      \* what the frame before it did
    lastStep,          \* what the last simulation step read and wrote
    drawRead,          \* what the last draw call read
    fill               \* per page load: the noise table and fillTexture's loop state

vars == <<pc, startedBy, now, lastTimestamp, deltaTime, currentAngle, sphere,
          plane_mesh, heightmapUniforms, heightmapDefines, waterUniforms,
          agentUniforms, gpuCompute, rafQueue, batch, size, frames, ticks,
          steps, draws, frameLog, prevFrameLog, lastStep, drawRead, fill>>

\* ------------------------------------------------------------ references
TextureOf(i) == IF i = 0 THEN "rt0.texture" ELSE "rt1.texture"

\* The content a uniform's value stands for when it is read.
Deref(u) ==
    IF "val" \in DOMAIN u THEN u.val
    ELSE CASE u.ref = "sphere.position" -> sphere.position
           [] u.ref = "sphere.matrixWorld" -> sphere.matrixWorld
           [] u.ref = "plane_mesh.matrixWorld" -> plane_mesh.matrixWorld
           [] OTHER -> u.ref

Null == [ref |-> "null"]

\* ----------------------------------------------------------------- setup
\* setAgent: the sphere at the origin; its matrixWorld is the identity until the
\* first renderer.render updates the scene's world matrices.
setAgent_sphere == [position |-> <<0, 0, 0>>, matrixWorld |-> Identity]

setAgent_uniforms == [heightmap |-> Null, tf_agent_to_world |-> Null]

\* setWater: updateMatrix() composes the local matrix and sets
\* matrixWorldNeedsUpdate; matrixWorld itself is left as constructed.
setWater_plane_mesh ==
    [matrix |-> PlaneMatrix, matrixWorld |-> Identity,
     matrixAutoUpdate |-> FALSE, matrixWorldNeedsUpdate |-> TRUE]

setWater_waterUniforms ==
    [heightmap |-> Null, cameraPos |-> [val |-> <<0, 0, 0>>],
     agentPosition |-> Null, tf_agent_to_world |-> Null]

\* A copy of the position as it is during setup, where the source binds the object.
MutAgentPositionClone == [val |-> setAgent_sphere.position]

\* uniforms['agentPosition'] = {value: this.#sphere.position}: the uniform holds
\* the sphere's position object itself, which stepAgent changes in place.
AgentPositionValue == [ref |-> "sphere.position"]

setWater_heightmapUniforms ==
    [mousePos |-> [val |-> <<mousePosFar, mousePosFar>>],
     mouseSize |-> [val |-> mouseSize],
     viscosityConstant |-> [val |-> viscosityConstantPct],
     heightCompensation |-> [val |-> heightCompensation],
     agentPosition |-> AgentPositionValue,
     tf_water_to_world |-> [ref |-> "plane_mesh.matrixWorld"],
     heightmap |-> Null]

\* BOUNDS.toFixed(1)
setWater_defines == [BOUNDS |-> <<BOUNDS, 0>>]

\* new GPUComputationRenderer(...) and addVariable: the variable has no render
\* targets yet. writing and reading are the targets a pass in progress writes
\* and samples.
gpuComputeNew ==
    [initError |-> FALSE, renderTargets |-> <<>>, currentTextureIndex |-> 0,
     writing |-> {}, reading |-> {}]

\* gpuCompute.init(): on an error it returns before any render target exists; on
\* success both targets are rendered from the initial texture (generation 0: a
\* buffer's content is named by the number of simulation steps that led to it).
\* setWater logs the error and goes on.
gpuComputeInit(g, error) ==
    [g EXCEPT !.initError = error,
              !.renderTargets = IF error THEN <<>> ELSE [i \in 0..1 |-> 0],
              !.currentTextureIndex = 0]

NoStep == [from |-> 0, to |-> 0, input |-> 0, output |-> 0, cursorBefore |-> 0,
           agentPosition |-> <<0, 0, 0>>, tf_water_to_world |-> Identity]

NoDraw == [water |-> "null", agent |-> "null", tf_agent_to_world |-> Identity]

Sizes == {<<800, 600>>, <<1024, 768>>}

\* --------------------------------------------------------- texture seeding
\* Two loads of the page are kept side by side (Loads), each with its own
\* SimplexNoise table and its own run of fillTexture, so that two runs can be
\* compared.  Heights are in thousandths; the noise loop keeps multR in
\* thousandths and mult in thousandths, rounding down after each update.
Loads == {1, 2}

\* new SimplexNoise() with no argument draws its permutation table from
\* Math.random: any table may come out.
SimplexTables == [0..(PermSize - 1) -> 0..(PermSize - 1)]

\* simplex.noise(xin, yin), xin and yin in thousandths: the gradient picked for
\* the lattice cell, perm[ii + perm[jj]], stands for the sample.
simplexNoise(perm, xin, yin) ==
    LET ii == (xin \div 1000) % PermSize
        jj == (yin \div 1000) % PermSize
    IN perm[(ii + perm[jj]) % PermSize]

\* The loop of noise(x, y): r += multR * simplex.noise(x * mult, y * mult);
\* multR *= 0.53 + 0.025 * i; mult *= 1.25.
RECURSIVE noiseLoop(_, _, _, _, _, _, _)
noiseLoop(perm, x, y, i, multR, mult, r) ==
    IF i < Octaves
    THEN noiseLoop(perm, x, y, i + 1,
                   (multR * (530 + 25 * i)) \div 1000,
                   (mult * 125) \div 100,
                   r + multR * simplexNoise(perm, x * mult, y * mult))
    ELSE r

\* noise(x, y) of fillTexture: multR = waterMaxHeight, mult = 0.025, r = 0.
noise(perm, x, y) == noiseLoop(perm, x, y, 0, waterMaxHeight * 1000, 25, 0)

\* gpuCompute.createTexture(): a zero-filled Float32Array(WIDTH * WIDTH * 4).
createTexture == [k \in 0..(4 * WIDTH * WIDTH - 1) |-> 0]

\* A write to a typed array at an index outside it is dropped.
Store(pixels, k, v) == IF k \in DOMAIN pixels THEN [pixels EXCEPT ![k] = v] ELSE pixels

\* The loop body writing cell (i, j) at the column-major offset
\* 4 * (i * WIDTH + j) in place of the running offset p.
MutFillCellTransposed(perm, pixels, i, j, p) ==
    LET q == 4 * (i * WIDTH + j)
        x == (i * 128) \div WIDTH
        y == (j * 128) \div WIDTH
        p0 == Store(pixels, q, noise(perm, x, y))
        p1 == Store(p0, q + 1, IF q \in DOMAIN p0 THEN p0[q] ELSE 0)
        p2 == Store(p1, q + 2, 0)
    IN Store(p2, q + 3, 1)

\* The body of fillTexture's inner loop at (i, j, p).
fillCell(perm, pixels, i, j, p) ==
    LET x == (i * 128) \div WIDTH
        y == (j * 128) \div WIDTH
        p0 == Store(pixels, p, noise(perm, x, y))
        p1 == Store(p0, p + 1, IF p \in DOMAIN p0 THEN p0[p] ELSE 0)
        p2 == Store(p1, p + 2, 0)
    IN Store(p2, p + 3, 1)

\* One pass of the inner loop, and the loop headers that follow it.
fillStep(f) ==
    [f EXCEPT !.pixels = fillCell(f.perm, f.pixels, f.i, f.j, f.p),
              !.p = f.p + 4,
              !.i = IF f.i + 1 < WIDTH THEN f.i + 1 ELSE 0,
              !.j = IF f.i + 1 < WIDTH THEN f.j ELSE f.j + 1,
              !.writes = f.writes + 1]

fillStart(perm) == [perm |-> perm, pixels |-> createTexture, i |-> 0, j |-> 0,
                    p |-> 0, writes |-> 0]

fillDone(f) == f.j >= WIDTH

RECURSIVE fillTexture(_)
fillTexture(f) == IF fillDone(f) THEN f ELSE fillTexture(fillStep(f))

\* The state in which init() calls this.animate() (water.js:130): an error of
\* gpuCompute.init() was logged and setup went on. fillTexture has run with the
\* table this load drew; the frame driver never looks at a second load, so both
\* entries of fill stand for this one.
Init ==
    /\ pc = "animate"
    /\ startedBy = "init"
    /\ now = 0
    /\ lastTimestamp = 0
    /\ deltaTime = 0
    /\ currentAngle = <<>>
    /\ sphere = setAgent_sphere
    /\ plane_mesh = setWater_plane_mesh
    /\ heightmapUniforms = setWater_heightmapUniforms
    /\ heightmapDefines = setWater_defines
    /\ waterUniforms = setWater_waterUniforms
    /\ agentUniforms = setAgent_uniforms
    /\ \E error \in BOOLEAN : gpuCompute = gpuComputeInit(gpuComputeNew, error)
    /\ rafQueue = 0
    /\ batch = 0
    /\ size \in Sizes
    /\ frames = 0
    /\ ticks = 0
    /\ steps = 0
    /\ draws = 0
    /\ frameLog = <<>>
    /\ prevFrameLog = <<>>
    /\ lastStep = NoStep
    /\ drawRead = NoDraw
    /\ \E perm \in SimplexTables : fill = [l \in Loads |-> fillTexture(fillStart(perm))]

\* ---------------------------------------------------------------- frames
\* Registering the callback twice in a frame.
MutRequestTwice(q) == q + 2

\* requestAnimationFrame(this.animate): one more callback for the next tick.
requestAnimationFrame(q) == q + 1

\* animate(), lines 140-144: re-arm, then take the elapsed time.
AnimateBegin ==
    /\ pc = "animate"
    /\ rafQueue' = requestAnimationFrame(rafQueue)
    /\ deltaTime' = now - lastTimestamp
    /\ lastTimestamp' = now
    /\ frames' = Inc(frames)
    /\ prevFrameLog' = frameLog
    /\ frameLog' = <<>>
    /\ pc' = "stepAgent"
    /\ UNCHANGED <<fill, startedBy, now, currentAngle, sphere, plane_mesh,
                   heightmapUniforms, heightmapDefines, waterUniforms,
                   agentUniforms, gpuCompute, batch, size, ticks, steps, draws,
                   lastStep, drawRead>>

\* stepAgent(deltaTime): the sphere's position object is changed in place.
stepAgent ==
    /\ pc = "stepAgent"
    /\ LET angle == OrZero(currentAngle) + deltaTime
       IN /\ currentAngle' = <<angle>>
          /\ sphere' = [sphere EXCEPT !.position =
                           <<radius * CosQ(angle), @[2], radius * SinQ(angle)>>]
    /\ frameLog' = Append(frameLog, "stepAgent")
    /\ pc' = "compute"
    /\ UNCHANGED <<fill, startedBy, now, lastTimestamp, deltaTime, plane_mesh,
                   heightmapUniforms, heightmapDefines, waterUniforms,
                   agentUniforms, gpuCompute, rafQueue, batch, size, frames,
                   ticks, steps, draws, prevFrameLog, lastStep, drawRead>>

\* The frame is over (it returned or threw): the next callback of this tick
\* runs, or the driver is idle.
FrameEnd ==
    IF batch > 0
    THEN pc' = "animate" /\ batch' = batch - 1 /\ startedBy' = "tick"
    ELSE pc' = "idle" /\ batch' = batch /\ startedBy' = startedBy

\* GPUComputationRenderer's two accessors: the target the last step wrote (the
\* cursor), and the other one.
getAlternateRenderTarget(g) == 1 - g.currentTextureIndex

getCurrentRenderTarget(g) == g.currentTextureIndex

\* gpuCompute.compute(), first half: the dependency sampler is bound to the
\* current target's texture and the pass into the other target starts. With no
\* render targets (init failed) reading renderTargets[current].texture throws a
\* TypeError, which ends the frame.
ComputeBegin ==
    /\ pc = "compute"
    /\ LET cur == gpuCompute.currentTextureIndex
           nxt == IF cur = 0 THEN 1 ELSE 0
       IN IF cur \in DOMAIN gpuCompute.renderTargets
          THEN /\ heightmapUniforms' =
                      [heightmapUniforms EXCEPT !.heightmap = [ref |-> TextureOf(cur)]]
               /\ gpuCompute' = [gpuCompute EXCEPT !.writing = {nxt}, !.reading = {cur}]
               /\ lastStep' =
                      [from |-> cur, to |-> nxt,
                       input |-> gpuCompute.renderTargets[cur],
                       output |-> Inc(gpuCompute.renderTargets[cur]),
                       cursorBefore |-> cur,
                       agentPosition |-> Deref(heightmapUniforms.agentPosition),
                       tf_water_to_world |-> Deref(heightmapUniforms.tf_water_to_world)]
               /\ frameLog' = Append(frameLog, "compute")
               /\ pc' = "computing"
               /\ UNCHANGED <<batch, startedBy>>
          ELSE /\ FrameEnd
               /\ frameLog' = Append(frameLog, "throw")
               /\ UNCHANGED <<heightmapUniforms, gpuCompute, lastStep>>
    /\ UNCHANGED <<fill, now, lastTimestamp, deltaTime, currentAngle, sphere,
                   plane_mesh, heightmapDefines, waterUniforms, agentUniforms,
                   rafQueue, size, frames, ticks, steps, draws, prevFrameLog,
                   drawRead>>

\* gpuCompute.compute(), second half: the pass has written the other target from
\* what it read, and the cursor flips.
ComputeEnd ==
    /\ pc = "computing"
    /\ gpuCompute' =
           [gpuCompute EXCEPT
               !.renderTargets = [@ EXCEPT ![lastStep.to] = lastStep.output],
               !.currentTextureIndex = lastStep.to,
               !.writing = {}, !.reading = {}]
    /\ steps' = Inc(steps)
    /\ pc' = "refresh"
    /\ UNCHANGED <<fill, startedBy, now, lastTimestamp, deltaTime, currentAngle,
                   sphere, plane_mesh, heightmapUniforms, heightmapDefines,
                   waterUniforms, agentUniforms, rafQueue, batch, size, frames,
                   ticks, draws, frameLog, prevFrameLog, lastStep, drawRead>>

\* The agent's uniform taken from the other target.
MutAgentHeightmapAlternate(g) == TextureOf(getAlternateRenderTarget(g))

\* gpuCompute.getCurrentRenderTarget(heightmapVariable).texture, for the agent
AgentHeightmapTexture(g) == TextureOf(getCurrentRenderTarget(g))

\* the same, for the water
WaterHeightmapTexture(g) == TextureOf(getCurrentRenderTarget(g))

\* The camera is placed once, in init().
cameraPosition == <<350, 400, -500>>

\* render(), lines 174-183: the uniforms are refreshed.
Refresh ==
    /\ pc = "refresh"
    /\ waterUniforms' =
           [heightmap |-> [ref |-> WaterHeightmapTexture(gpuCompute)],
            cameraPos |-> [val |-> cameraPosition],
            agentPosition |-> [ref |-> "sphere.position"],
            tf_agent_to_world |-> [ref |-> "sphere.matrixWorld"]]
    /\ heightmapUniforms' =
           [heightmapUniforms EXCEPT
               !.agentPosition = [ref |-> "sphere.position"],
               !.tf_water_to_world = [ref |-> "plane_mesh.matrixWorld"]]
    /\ agentUniforms' =
           [heightmap |-> [ref |-> AgentHeightmapTexture(gpuCompute)],
            tf_agent_to_world |-> [ref |-> "sphere.matrixWorld"]]
    /\ frameLog' = Append(frameLog, "refresh")
    /\ pc' = "draw"
    /\ UNCHANGED <<fill, startedBy, now, lastTimestamp, deltaTime, currentAngle,
                   sphere, plane_mesh, heightmapDefines, gpuCompute, rafQueue,
                   batch, size, frames, ticks, steps, draws, prevFrameLog,
                   lastStep, drawRead>>

\* Object3D.updateMatrixWorld under the scene: the sphere (matrixAutoUpdate)
\* recomposes its matrix from its position; every child's matrixWorld becomes
\* its local matrix, the scene's own transform being the identity.
updateMatrixWorld_sphere(s) ==
    [s EXCEPT !.matrixWorld = compose(s.position, "identity")]

updateMatrixWorld_plane(p) ==
    [p EXCEPT !.matrixWorld = p.matrix, !.matrixWorldNeedsUpdate = FALSE]

\* this.#renderer.render(scene, camera), then this.#stats.update(): the world
\* matrices are updated, the materials' uniforms are read, the frame is over.
Draw ==
    /\ pc = "draw"
    /\ sphere' = updateMatrixWorld_sphere(sphere)
    /\ plane_mesh' = updateMatrixWorld_plane(plane_mesh)
    /\ drawRead' = [water |-> Deref(waterUniforms.heightmap),
                    agent |-> Deref(agentUniforms.heightmap),
                    tf_agent_to_world |-> sphere'.matrixWorld]
    /\ draws' = Inc(draws)
    /\ frameLog' = Append(frameLog, "draw")
    /\ FrameEnd
    /\ UNCHANGED <<fill, now, lastTimestamp, deltaTime, currentAngle,
                   heightmapUniforms, heightmapDefines, waterUniforms,
                   agentUniforms, gpuCompute, rafQueue, size, frames, ticks,
                   steps, lastStep, prevFrameLog>>

\* A display-refresh tick: the callbacks registered so far are taken off the
\* queue and run one after the other.
Tick ==
    /\ pc = "idle"
    /\ rafQueue > 0
    /\ batch' = rafQueue - 1
    /\ rafQueue' = 0
    /\ ticks' = Inc(ticks)
    /\ startedBy' = "tick"
    /\ pc' = "animate"
    /\ UNCHANGED <<fill, now, lastTimestamp, deltaTime, currentAngle, sphere,
                   plane_mesh, heightmapUniforms, heightmapDefines,
                   waterUniforms, agentUniforms, gpuCompute, size, frames,
                   steps, draws, frameLog, prevFrameLog, lastStep, drawRead>>

\* handleResize, as the window's resize listener.
handleResize ==
    /\ pc = "idle"
    /\ \E s \in Sizes \ {size} : size' = s
    /\ UNCHANGED <<fill, pc, startedBy, now, lastTimestamp, deltaTime, currentAngle,
                   sphere, plane_mesh, heightmapUniforms, heightmapDefines,
                   waterUniforms, agentUniforms, gpuCompute, rafQueue, batch,
                   frames, ticks, steps, draws, frameLog, prevFrameLog,
                   lastStep, drawRead>>

\* Time passes.
AdvanceClock ==
    /\ now < MaxTime
    /\ now' = now + 1
    /\ UNCHANGED <<fill, pc, startedBy, lastTimestamp, deltaTime, currentAngle,
                   sphere, plane_mesh, heightmapUniforms, heightmapDefines,
                   waterUniforms, agentUniforms, gpuCompute, rafQueue, batch,
                   size, frames, ticks, steps, draws, frameLog, prevFrameLog,
                   lastStep, drawRead>>

FrameStep ==
    \/ AnimateBegin
    \/ stepAgent
    \/ ComputeBegin
    \/ ComputeEnd
    \/ Refresh
    \/ Draw

Next ==
    \/ FrameStep
    \/ Tick
    \/ handleResize
    \/ AdvanceClock

Spec == Init /\ [][Next]_vars

\* Ticks keep coming and a running frame runs on.
FairSpec == Spec /\ WF_vars(Tick) /\ WF_vars(FrameStep)

\* ------------------------------------------------- the seeding on its own
\* Two loads of the page, each inside setWater at the call of fillTexture
\* (water.js:346): gpuCompute.init() has not run yet.
FillInit ==
    /\ pc = "fillTexture"
    /\ startedBy = "init"
    /\ now = 0
    /\ lastTimestamp = 0
    /\ deltaTime = 0
    /\ currentAngle = <<>>
    /\ sphere = setAgent_sphere
    /\ plane_mesh = setWater_plane_mesh
    /\ heightmapUniforms = setWater_heightmapUniforms
    /\ heightmapDefines = setWater_defines
    /\ waterUniforms = setWater_waterUniforms
    /\ agentUniforms = setAgent_uniforms
    /\ gpuCompute = gpuComputeNew
    /\ rafQueue = 0
    /\ batch = 0
    /\ size = <<800, 600>>
    /\ frames = 0
    /\ ticks = 0
    /\ steps = 0
    /\ draws = 0
    /\ frameLog = <<>>
    /\ prevFrameLog = <<>>
    /\ lastStep = NoStep
    /\ drawRead = NoDraw
    /\ fill \in [Loads -> {fillStart(perm) : perm \in SimplexTables}]

FillCell(l) ==
    /\ pc = "fillTexture"
    /\ ~fillDone(fill[l])
    /\ fill' = [fill EXCEPT ![l] = fillStep(fill[l])]
    /\ UNCHANGED <<pc, startedBy, now, lastTimestamp, deltaTime, currentAngle,
                   sphere, plane_mesh, heightmapUniforms, heightmapDefines,
                   waterUniforms, agentUniforms, gpuCompute, rafQueue, batch,
                   size, frames, ticks, steps, draws, frameLog, prevFrameLog,
                   lastStep, drawRead>>

FillNext == \E l \in Loads : FillCell(l)

FillSpec == FillInit /\ [][FillNext]_vars

\* ================================================================ claims
FrameOrder == <<"stepAgent", "compute", "refresh", "draw">>

IsPrefix(s, t) == Len(s) <= Len(t) /\ \A k \in 1..Len(s) : s[k] = t[k]

\* The running frame has begun its simulation step.
ComputeStarted == Len(frameLog) >= 2 /\ frameLog[2] = "compute"

\* The position stepAgent leaves the agent at for the current angle.
SteppedPosition ==
    <<radius * CosQ(OrZero(currentAngle)), 0, radius * SinQ(OrZero(currentAngle))>>

\* C1: what a frame has done so far is always an initial part of stepAgent,
\* simulation step, uniform refresh, draw (a frame whose simulation step throws
\* stops there); the position the simulation step reads as 'agentPosition' is the
\* one this frame's stepAgent has just set; and a simulation step only starts
\* when the frame before it has finished, its draw included if it drew.
C1_FrameOrder ==
    /\ IsPrefix(frameLog, FrameOrder) \/ frameLog = <<"stepAgent", "throw">>
    /\ pc = "compute" =>
           /\ frameLog = <<"stepAgent">>
           /\ Deref(heightmapUniforms.agentPosition) = SteppedPosition
    /\ ComputeStarted => lastStep.agentPosition = SteppedPosition
    /\ pc = "refresh" => frameLog = <<"stepAgent", "compute">>
    /\ pc = "draw" => frameLog = <<"stepAgent", "compute", "refresh">>
    /\ (pc = "computing" /\ frames >= 2) => prevFrameLog = FrameOrder
    /\ (pc = "computing" /\ frames >= 2) => draws >= 1

\* C1's case: the second frame is in its simulation step and the agent has moved.
C1_Witness ==
    /\ pc = "computing"
    /\ frames = 2
    /\ prevFrameLog = FrameOrder
    /\ lastStep.agentPosition = <<0, 0, radius>>

\* C2: after N >= 1 completed simulation steps (N below the counters' cap) the
\* buffer the current-heightmap accessor returns holds the output of step N
\* (generation N), the other buffer holds what step N read (generation N - 1)
\* and so does not hold that output, and the cursor is not where it was before
\* step N.
C2_PingPong ==
    steps \in 1..(MaxCount - 1) =>
        LET c == getCurrentRenderTarget(gpuCompute)
            o == 1 - c
        IN /\ gpuCompute.renderTargets[c] = steps
           /\ gpuCompute.renderTargets[o] = steps - 1
           /\ gpuCompute.renderTargets[o] # gpuCompute.renderTargets[c]
           /\ c = steps % 2
           /\ pc # "computing" =>
                  /\ lastStep.output = gpuCompute.renderTargets[c]
                  /\ lastStep.input = gpuCompute.renderTargets[o]
                  /\ lastStep.from = o
                  /\ c # lastStep.cursorBefore

C2_Witness ==
    /\ steps = 2
    /\ pc = "refresh"
    /\ gpuCompute.currentTextureIndex = 0
    /\ gpuCompute.renderTargets = [i \in 0..1 |-> IF i = 0 THEN 2 ELSE 1]

\* C3: when the draw call is about to run, the water's and the agent's
\* 'heightmap' uniforms reference the same texture, that of the buffer this
\* frame's simulation step wrote, which is the current buffer, and no pass is
\* writing any buffer; a buffer is only being written inside the simulation
\* step, and the pass never reads the buffer it writes.
C3_DrawReadsWrittenBuffer ==
    /\ pc = "draw" =>
           /\ waterUniforms.heightmap = agentUniforms.heightmap
           /\ ComputeStarted
           /\ waterUniforms.heightmap = [ref |-> TextureOf(lastStep.to)]
           /\ lastStep.to = gpuCompute.currentTextureIndex
           /\ gpuCompute.writing = {}
    /\ gpuCompute.writing # {} =>
           /\ pc = "computing"
           /\ gpuCompute.writing \cap gpuCompute.reading = {}
    /\ draws >= 1 => drawRead.water = drawRead.agent

C3_Witness ==
    /\ pc = "draw"
    /\ steps = 2
    /\ waterUniforms.heightmap = [ref |-> "rt0.texture"]
    /\ drawRead.water = "rt1.texture"

\* C4 as stated: every execution of animate() is started by a display-refresh
\* tick, executions and ticks are equal in number, and a tick starts one
\* execution only.
C4_EveryFrameStartedByTick ==
    /\ pc # "idle" => startedBy = "tick"
    /\ (pc = "idle" /\ ticks < MaxCount) => frames = ticks
    /\ batch = 0

\* C4 amended: the first execution of animate() is the direct call that ends
\* init(), and no other is; every later execution is started by a tick; every
\* tick starts exactly one execution (executions begun or about to begin are
\* ticks + 1); at most one callback is registered at any time, exactly one
\* whenever the driver is idle.
C4_OneFramePerTickAfterFirst ==
    /\ startedBy = "init" => (ticks = 0 /\ frames <= 1)
    /\ startedBy = "tick" => ticks >= 1
    /\ ticks < MaxCount =>
           frames + (IF pc = "animate" THEN 1 ELSE 0) = ticks + 1
    /\ batch = 0
    /\ rafQueue <= 1
    /\ pc = "idle" => rafQueue = 1
    /\ pc \notin {"idle", "animate"} => rafQueue = 1

C4_Witness ==
    /\ startedBy = "tick"
    /\ ticks = 2
    /\ frames = 3
    /\ pc = "stepAgent"

\* C5: after a failed gpuCompute.init() the frame loop is never started: no
\* callback is registered, no frame runs, no simulation step is attempted and
\* nothing is drawn.
C5_FailedInitStartsNothing ==
    gpuCompute.initError =>
        /\ rafQueue = 0
        /\ frames = 0
        /\ frameLog = <<>>
        /\ draws = 0

\* C6's case: the agent lies outside the water, which spans BOUNDS/2 either side
\* of the origin in x and z. No reachable state satisfies it.
AgentOutsideBounds ==
    \E k \in {1, 3} :
        sphere.position[k] < -(BOUNDS \div 2) \/ sphere.position[k] > BOUNDS \div 2

\* What the simulation step is given besides the agent's position.
OtherSimulationInputs ==
    <<Deref(heightmapUniforms.mousePos), Deref(heightmapUniforms.mouseSize),
      Deref(heightmapUniforms.viscosityConstant),
      Deref(heightmapUniforms.heightCompensation),
      Deref(heightmapUniforms.tf_water_to_world), heightmapDefines>>

\* C7: no step changes mouseSize, viscosityConstant, heightCompensation, the
\* BOUNDS define or any other input of the simulation but the agent's position,
\* and the agent's position only changes in stepAgent, which runs once a frame.
C7_OnlyAgentPositionChanges ==
    [][/\ OtherSimulationInputs' = OtherSimulationInputs
       /\ Deref(heightmapUniforms.agentPosition)' # Deref(heightmapUniforms.agentPosition)
              => (pc = "stepAgent" /\ frameLog = <<>>)]_vars

\* C8: whenever a simulation step has read its inputs, the 'tf_water_to_world'
\* it read is the transform the water mesh was placed with.
C8_TransformAsPlaced ==
    ComputeStarted => lastStep.tf_water_to_world = PlaneMatrix

\* C9: two loads of the page that have both run fillTexture hold the same
\* initial heightmap.
C9_SameInitialHeightmap ==
    (fillDone(fill[1]) /\ fillDone(fill[2])) => fill[1].pixels = fill[2].pixels

\* C10: every frame re-arms the callback; under fair ticks frames and draw calls
\* both recur for ever; and the driver is idle right after each draw.
C10_FramesAndDrawsRecur ==
    /\ [](pc \notin {"animate"} => rafQueue >= 1)
    /\ []<>(pc = "stepAgent")
    /\ []<>(pc = "draw")
    /\ [][(pc = "draw" /\ pc' # "draw") => pc' = "idle"]_vars

\* C11: whenever the driver is idle, the simulation steps completed, the draw
\* calls completed and the frames executed are equal in number (below the
\* counters' cap).
C11_OneStepOneDrawPerFrame ==
    (pc = "idle" /\ frames < MaxCount) => (steps = frames /\ draws = frames)

\* The four channels cell (i, j) holds once written: the noise height twice,
\* then 0, then 1.
FilledCell(perm, i, j) ==
    LET h == noise(perm, (i * 128) \div WIDTH, (j * 128) \div WIDTH)
    IN <<h, h, 0, 1>>

CellAt(pixels, k) == <<pixels[4 * k], pixels[4 * k + 1], pixels[4 * k + 2], pixels[4 * k + 3]>>

\* Where the loop of a load stands: the offset is that of cell (i, j) in
\* row-major order, the cells before it hold their four channels and the cells
\* from it on are as createTexture left them.
FillProgress(f) ==
    /\ f.i \in 0..(WIDTH - 1)
    /\ f.j \in 0..WIDTH
    /\ f.p = 4 * (f.j * WIDTH + f.i)
    /\ f.writes = f.j * WIDTH + f.i
    /\ fillDone(f) => (f.i = 0 /\ f.j = WIDTH /\ f.writes = WIDTH * WIDTH)
    /\ DOMAIN f.pixels = 0..(4 * WIDTH * WIDTH - 1)
    /\ \A k \in 0..(WIDTH * WIDTH - 1) :
           CellAt(f.pixels, k) =
               IF k < f.writes THEN FilledCell(f.perm, k % WIDTH, k \div WIDTH)
               ELSE <<0, 0, 0, 0>>

\* One pass of the loop from f to g: it writes the four channels of cell
\* (f.i, f.j), which was not written before, at offsets p .. p + 3 below
\* 4 * WIDTH * WIDTH, and touches no other index.
FillWrite(f, g) ==
    /\ f.p = 4 * (f.j * WIDTH + f.i)
    /\ f.p + 3 < 4 * WIDTH * WIDTH
    /\ CellAt(f.pixels, f.p \div 4) = <<0, 0, 0, 0>>
    /\ CellAt(g.pixels, f.p \div 4) = FilledCell(f.perm, f.i, f.j)
    /\ \A k \in DOMAIN f.pixels : k \notin f.p..(f.p + 3) => g.pixels[k] = f.pixels[k]
    /\ g.writes = f.writes + 1
    /\ g.p = f.p + 4

\* C12: fillTexture writes every cell of the WIDTH x WIDTH heightmap exactly
\* once, in row-major order, cell (i, j) at offset 4 * (j * WIDTH + i), with
\* channels <<noise height, the same height, 0, 1>>, and never at an index at
\* or beyond 4 * WIDTH * WIDTH; when it ends all WIDTH * WIDTH cells are written.
C12_FillTextureCells ==
    /\ [](\A l \in Loads : FillProgress(fill[l]))
    /\ [][\A l \in Loads : fill'[l] # fill[l] => FillWrite(fill[l], fill'[l])]_vars

\* C12's case: a load has run fillTexture to its end over a table that gives
\* some cell a height other than 0.
C12_Witness ==
    /\ fillDone(fill[1])
    /\ fill[1].writes = WIDTH * WIDTH
    /\ fill[1].pixels[4 * WIDTH * WIDTH - 1] = 1
    /\ \E k \in 0..(WIDTH * WIDTH - 1) : fill[1].pixels[4 * k] # 0

Abs(n) == IF n < 0 THEN -n ELSE n

\* C13: once stepAgent has run, the agent is on the circle
\* x^2 + z^2 = (BOUNDS/4)^2 of the water plane, so |x| and |z| are at most
\* BOUNDS/4 and the agent is within [-BOUNDS/2, BOUNDS/2] on both axes; no step
\* ever changes the agent's y coordinate, which stays as setAgent put it.
C13_AgentOnCircle ==
    /\ [](currentAngle # <<>> =>
            LET x == sphere.position[1]
                z == sphere.position[3]
            IN /\ x * x + z * z = (BOUNDS \div 4) * (BOUNDS \div 4)
               /\ Abs(x) <= BOUNDS \div 4
               /\ Abs(z) <= BOUNDS \div 4
               /\ x \in (-(BOUNDS \div 2))..(BOUNDS \div 2)
               /\ z \in (-(BOUNDS \div 2))..(BOUNDS \div 2))
    /\ [](sphere.position[2] = setAgent_sphere.position[2])
    /\ [][sphere'.position[2] = sphere.position[2]]_vars

\* C13's case: stepAgent has run in three frames or more and has taken the
\* agent half-way round the circle.
C13_Witness ==
    /\ frames >= 3
    /\ pc = "compute"
    /\ currentAngle = <<2>>
    /\ sphere.position = <<-(BOUNDS \div 4), 0, 0>>

\* C14: the agent's angle does not depend on how the elapsed time is cut into
\* frames. Once stepAgent has run, and outside the two statements between
\* taking the timestamp and stepAgent, currentAngle (quarter turns, PI/2 per
\* clock quantum) is the time from the initial lastTimestamp, 0, to the latest
\* frame's timestamp; every deltaTime is non-negative and is the time since
\* the frame before, so the deltaTimes add up to that interval, and every
\* stepAgent adds exactly its frame's deltaTime.
C14_FrameRateIndependent ==
    /\ []((currentAngle # <<>> /\ pc # "stepAgent") => currentAngle[1] = lastTimestamp - 0)
    /\ [](deltaTime >= 0 /\ lastTimestamp <= now)
    /\ [][lastTimestamp' # lastTimestamp \/ deltaTime' # deltaTime =>
            /\ lastTimestamp' = now
            /\ deltaTime' = lastTimestamp' - lastTimestamp]_vars
    /\ [][currentAngle' # currentAngle =>
            currentAngle'[1] = (IF currentAngle = <<>> THEN 0 ELSE currentAngle[1]) + deltaTime]_vars

\* C14's case: the same interval of three quanta has been cut into three
\* frames or more, the latest of them two quanta long.
C14_Witness ==
    /\ frames >= 3
    /\ pc = "idle"
    /\ deltaTime = 2
    /\ lastTimestamp = 3
    /\ currentAngle = <<3>>

\* The same interval taken in one frame.
C14_WitnessOneFrame ==
    /\ frames = 1
    /\ pc = "idle"
    /\ deltaTime = 3
    /\ currentAngle = <<3>>

====
